---- MODULE Spec2Model ----
(***************************************************************************)
(* RalphLoopAgent (src/src/ralph-loop-agent.ts): the outer "Ralph loop"    *)
(* that calls the text-generation engine until the caller's verification   *)
(* predicate reports completion, the iteration budget is spent, or the     *)
(* caller cancels; and its streaming variant.                              *)
(*                                                                         *)
(* One agent (its immutable settings) and its loop()/stream() invocations. *)
(* An invocation is an async function: it runs synchronously from one      *)
(* await to the next.  Its position (pc) is the await it is suspended at,  *)
(* and every action is the synchronous code that runs when that await      *)
(* settles, up to the next await or to the return/throw of the method.     *)
(***************************************************************************)
EXTENDS Integers, Sequences, FiniteSets, TLC

VARIABLES
  settings,     \* this.settings: the agent's configuration, never written
  abortSignal,  \* abortSignal[v].aborted of the signal passed to invocation v
  inv,          \* the locals of each invocation (one async call frame each),
                \* with the history of its collaborator calls
  abortedAt     \* history: where invocation v was when its signal fired

vars == <<settings, abortSignal, inv, abortedAt>>

---------------------------------------------------------------------------
(* Bounds of the model *)

\* largest count given to iterationCountIs(count)
MaxBudget == 3
\* how many messages result.response.messages of one engine call can hold
\* (the assistant message alone, or with a tool message)
ResponseCounts == {1, 2}

\* the loop()/stream() invocations of the one agent
Invocations == {"A", "B"}

---------------------------------------------------------------------------
(* Values *)

\* JavaScript undefined, for the optional strings (reason, instructions)
Undefined == "<undefined>"

\* JavaScript truthiness of an optional string
Truthy(s) == s # Undefined /\ s # ""

Prompts == {"Summarize X"}

\* reason of a VerifyCompletionResult: absent, empty, or a text
Reasons == {Undefined, "", "needs tests"}

\* what verifyCompletion can resolve to
Verifications == [complete : BOOLEAN, reason : Reasons]

ContinuationText == "Continue working on the task. The previous attempt was not complete."

\* a message with one text part, { role, content: [{ type: 'text', text }] },
\* or with string content: the content is represented by its text
Message(role, text) == [role |-> role, content |-> text]

SystemInstruction1 == Message("system", "You are a helpful assistant.")
SystemInstruction2 == Message("system", "Answer briefly.")

\* settings.instructions: undefined, a string, one message, or an array of messages
InstructionsSet ==
  { [kind |-> "undefined", text |-> Undefined, msgs |-> <<>>],
    [kind |-> "string", text |-> "", msgs |-> <<>>],
    [kind |-> "string", text |-> "You are a helpful assistant.", msgs |-> <<>>],
    [kind |-> "message", text |-> Undefined, msgs |-> <<SystemInstruction1>>],
    [kind |-> "array", text |-> Undefined, msgs |-> <<SystemInstruction1, SystemInstruction2>>] }

\* settings.stopWhen: undefined, or iterationCountIs(count)
StopWhenSet ==
  { [type |-> "undefined", count |-> 0] }
    \cup { [type |-> "iteration-count", count |-> n] : n \in 0..MaxBudget }

\* the result of the engine call of iteration i, with n response messages:
\* an assistant message, then tool messages
ResponseMessage(i, j) ==
  Message(IF j = 1 THEN "assistant" ELSE "tool",
          "response " \o ToString(i) \o "." \o ToString(j))

GenerateTextResult(i, n) ==
  [text |-> "text " \o ToString(i),
   response |-> [messages |-> [j \in 1..n |-> ResponseMessage(i, j)]]]

\* one call of a collaborator, as the invocation's call history records it
Call(name, i) == [call |-> name, iteration |-> i]

---------------------------------------------------------------------------
(* The agent: settings and the private helpers *)

\* the configurations of the agent that the model explores.  Without an
\* iteration-count stop condition the budget is the default of 10 iterations;
\* that budget is explored for the agent without verifier, callbacks and
\* instructions.  The shapes of the instructions are explored for the agent
\* with both callbacks.
SettingsSet ==
  { s \in [stopWhen : StopWhenSet,
           instructions : InstructionsSet,
           onIterationStart : BOOLEAN,
           onIterationEnd : BOOLEAN,
           verifyCompletion : BOOLEAN] :
      /\ s.stopWhen.type # "iteration-count" =>
           ~s.verifyCompletion /\ ~s.onIterationStart /\ ~s.onIterationEnd
      /\ s.instructions.kind # "undefined" =>
           s.onIterationStart /\ s.onIterationEnd }

\* get maxIterations()
maxIterations ==
  IF settings.stopWhen.type = "iteration-count"
  THEN settings.stopWhen.count
  ELSE 10

\* buildSystemMessages()
buildSystemMessages ==
  LET instructions == settings.instructions IN
  IF instructions.kind = "undefined" \/ (instructions.kind = "string" /\ instructions.text = "")
  THEN <<>>
  ELSE IF instructions.kind = "string"
  THEN <<Message("system", instructions.text)>>
  ELSE IF instructions.kind = "array"
  THEN instructions.msgs
  ELSE <<instructions.msgs[1]>>

---------------------------------------------------------------------------
(* The locals of one invocation *)

NoResult == [text |-> Undefined, response |-> [messages |-> <<>>]]

\* a frame before its method is called ("idle"), or never called ("off")
BlankFrame(pc) ==
  [mode |-> "none", pc |-> pc, prompt |-> Undefined,
   allResults |-> <<>>, currentMessages |-> <<>>, iteration |-> 0,
   completionReason |-> "max-iterations", reason |-> Undefined,
   maxIterations |-> 0, initialUserMessage |-> Message("user", Undefined),
   systemMessages |-> <<>>,
   messages |-> <<>>, result |-> NoResult,
   value |-> [none |-> TRUE], error |-> Undefined,
   calls |-> <<>>, verifications |-> <<>>]

\* the locals as loop() and stream() declare them before their while loop
NewFrame(mode, prompt) ==
  [BlankFrame("idle") EXCEPT
     !.mode = mode,
     !.prompt = prompt,
     !.maxIterations = maxIterations,
     !.initialUserMessage = Message("user", prompt),
     !.systemMessages = buildSystemMessages]

\* mutant of Throw: the failure is caught and noted, the invocation goes on
Throw_Swallowed(f, error) == [f EXCEPT !.error = error]

\* an await that rejects: nothing catches it, the method's promise rejects
Throw(f, error) == [f EXCEPT !.pc = "threw", !.error = error]

\* await this.settings.onIterationStart?.({ iteration })
CallOnIterationStart(f) ==
  [f EXCEPT !.pc = "onIterationStart",
            !.calls = IF settings.onIterationStart
                      THEN Append(@, Call("onIterationStart", f.iteration))
                      ELSE @]

\* await this.settings.onIterationEnd?.({ iteration, duration, result })
CallOnIterationEnd(f) ==
  [f EXCEPT !.pc = "onIterationEnd",
            !.calls = IF settings.onIterationEnd
                      THEN Append(@, Call("onIterationEnd", f.iteration))
                      ELSE @]

\* await generateText({ ..., messages, abortSignal })
CallGenerateText(f, messages) ==
  [f EXCEPT !.pc = "generateText",
            !.messages = messages,
            !.calls = Append(@, Call("generateText", f.iteration))]

\* await this.settings.verifyCompletion({ result, iteration, allResults, originalPrompt })
CallVerifyCompletion(f) ==
  [f EXCEPT !.pc = "verifyCompletion",
            !.calls = Append(@, Call("verifyCompletion", f.iteration))]

\* return streamText({ ..., messages, abortSignal })
ReturnStreamText(f, messages) ==
  [f EXCEPT !.pc = "returned",
            !.messages = messages,
            !.value = [streamText |-> [messages |-> messages]],
            !.calls = Append(@, Call("streamText", f.iteration))]

\* history: what verifyCompletion resolved to, iteration by iteration
Resolved(f, verification) == [f EXCEPT !.verifications = Append(@, verification)]

\* the feedback message pushed after an incomplete verification
FeedbackMessage(reason) == Message("user", "Feedback: " \o reason)

ContinuationMessage == Message("user", ContinuationText)

\* invocation v is suspended at an await
Running(v) == inv[v].pc \in {"onIterationStart", "generateText", "onIterationEnd", "verifyCompletion"}

---------------------------------------------------------------------------
(* loop(): the blocking variant *)

\* mutant of LoopReturn: the last element is read with optional chaining, and
\* an empty allResults gives a result without text
LoopReturn_OptionalChaining(f) ==
  LET finalResult == IF Len(f.allResults) = 0 THEN NoResult
                     ELSE f.allResults[Len(f.allResults)] IN
  [f EXCEPT !.pc = "returned",
            !.value = [text |-> finalResult.text,
                       iterations |-> f.iteration,
                       completionReason |-> f.completionReason,
                       reason |-> f.reason,
                       result |-> finalResult,
                       allResults |-> f.allResults]]

\* the end of loop(): the result is built from the last element of allResults;
\* reading .text of allResults[-1] of an empty array throws a TypeError
LoopReturn(f) ==
  IF Len(f.allResults) = 0
  THEN Throw(f, "TypeError")
  ELSE LET finalResult == f.allResults[Len(f.allResults)] IN
       [f EXCEPT !.pc = "returned",
                 !.value = [text |-> finalResult.text,
                            iterations |-> f.iteration,
                            completionReason |-> f.completionReason,
                            reason |-> f.reason,
                            result |-> finalResult,
                            allResults |-> f.allResults]]

\* mutant of LoopWhile: the budget test is off by one (<= for <)
LoopWhile_OffByOne(f, aborted) ==
  IF f.iteration <= f.maxIterations
  THEN IF aborted
       THEN LoopReturn([f EXCEPT !.completionReason = "aborted"])
       ELSE CallOnIterationStart([f EXCEPT !.iteration = @ + 1])
  ELSE LoopReturn(f)

\* mutant of LoopWhile: the abort check is missing
LoopWhile_NoAbortCheck(f, aborted) ==
  IF f.iteration < f.maxIterations
  THEN CallOnIterationStart([f EXCEPT !.iteration = @ + 1])
  ELSE LoopReturn(f)

\* mutant of LoopWhile: onIterationStart is called before iteration++
LoopWhile_StartBeforeIncrement(f, aborted) ==
  IF f.iteration < f.maxIterations
  THEN IF aborted
       THEN LoopReturn([f EXCEPT !.completionReason = "aborted"])
       ELSE [CallOnIterationStart(f) EXCEPT !.iteration = @ + 1]
  ELSE LoopReturn(f)

\* mutant of LoopWhile: iteration++ comes before the abort check
LoopWhile_IncrementBeforeAbortCheck(f, aborted) ==
  IF f.iteration < f.maxIterations
  THEN IF aborted
       THEN LoopReturn([f EXCEPT !.iteration = @ + 1, !.completionReason = "aborted"])
       ELSE CallOnIterationStart([f EXCEPT !.iteration = @ + 1])
  ELSE LoopReturn(f)

\* the head of loop()'s while loop: the budget test, the abort check, iteration++
\* and the call of onIterationStart
LoopWhile(f, aborted) ==
  IF f.iteration < f.maxIterations
  THEN IF aborted
       THEN LoopReturn([f EXCEPT !.completionReason = "aborted"])
       ELSE CallOnIterationStart([f EXCEPT !.iteration = @ + 1])
  ELSE LoopReturn(f)

\* mutant of LoopMessages: the continuation prompt is added on every iteration
LoopMessages_AlwaysContinue(f) ==
  LET messages == f.systemMessages \o <<f.initialUserMessage>> \o f.currentMessages IN
  IF f.iteration > 0
  THEN Append(messages, ContinuationMessage)
  ELSE messages

\* the messages of iteration f.iteration in loop()
LoopMessages(f) ==
  LET messages == f.systemMessages \o <<f.initialUserMessage>> \o f.currentMessages IN
  IF f.iteration > 1
  THEN Append(messages, ContinuationMessage)
  ELSE messages

\* mutant of LoopRecord: allResults keeps the last result only
LoopRecord_LastOnly(f, result) ==
  CallOnIterationEnd(
    [f EXCEPT !.result = result,
              !.allResults = <<result>>,
              !.currentMessages = @ \o result.response.messages])

\* mutant of LoopRecord: the conversation is replaced by the response messages
LoopRecord_HistoryReplaced(f, result) ==
  CallOnIterationEnd(
    [f EXCEPT !.result = result,
              !.allResults = Append(@, result),
              !.currentMessages = result.response.messages])

\* after generateText: the result is recorded, its response messages are added
\* to the conversation, and onIterationEnd is called
LoopRecord(f, result) ==
  CallOnIterationEnd(
    [f EXCEPT !.result = result,
              !.allResults = Append(@, result),
              !.currentMessages = @ \o result.response.messages])

\* mutant of LoopVerify: the signal is polled after onIterationEnd, and an
\* aborted invocation returns without asking the verifier
LoopVerify_AbortPolled(f, aborted) ==
  IF aborted
  THEN LoopReturn([f EXCEPT !.completionReason = "aborted"])
  ELSE IF settings.verifyCompletion
  THEN CallVerifyCompletion(f)
  ELSE LoopWhile(f, aborted)

\* after onIterationEnd: the verifier is called when there is one
LoopVerify(f, aborted) ==
  IF settings.verifyCompletion
  THEN CallVerifyCompletion(f)
  ELSE LoopWhile(f, aborted)

\* mutant of LoopVerified: the verifier's reason is not captured
LoopVerified_ReasonDropped(f, verification, aborted) ==
  IF verification.complete
  THEN LoopReturn([f EXCEPT !.completionReason = "verified"])
  ELSE IF Truthy(verification.reason) /\ ~verification.complete
  THEN LoopWhile([f EXCEPT !.currentMessages =
                     Append(@, FeedbackMessage(verification.reason))], aborted)
  ELSE LoopWhile(f, aborted)

\* mutant of LoopVerified: feedback is added whenever a reason is present,
\* the empty reason included
LoopVerified_EmptyFeedback(f, verification, aborted) ==
  IF verification.complete
  THEN LoopReturn([f EXCEPT !.completionReason = "verified",
                            !.reason = verification.reason])
  ELSE IF verification.reason # Undefined /\ ~verification.complete
  THEN LoopWhile([f EXCEPT !.currentMessages =
                     Append(@, FeedbackMessage(verification.reason))], aborted)
  ELSE LoopWhile(f, aborted)

\* mutant of LoopVerified: an aborted signal is honoured before the verdict
LoopVerified_AbortFirst(f, verification, aborted) ==
  IF aborted
  THEN LoopReturn([f EXCEPT !.completionReason = "aborted"])
  ELSE IF verification.complete
  THEN LoopReturn([f EXCEPT !.completionReason = "verified",
                            !.reason = verification.reason])
  ELSE IF Truthy(verification.reason) /\ ~verification.complete
  THEN LoopWhile([f EXCEPT !.currentMessages =
                     Append(@, FeedbackMessage(verification.reason))], aborted)
  ELSE LoopWhile(f, aborted)

\* after verifyCompletion: stop when complete, else add the feedback and loop
LoopVerified(f, verification, aborted) ==
  IF verification.complete
  THEN LoopReturn([f EXCEPT !.completionReason = "verified",
                            !.reason = verification.reason])
  ELSE IF Truthy(verification.reason) /\ ~verification.complete
  THEN LoopWhile([f EXCEPT !.currentMessages =
                     Append(@, FeedbackMessage(verification.reason))], aborted)
  ELSE LoopWhile(f, aborted)

\* agent.loop({ prompt, abortSignal }) is called
loop(v, prompt) ==
  /\ inv[v].pc = "idle"
  /\ inv' = [inv EXCEPT ![v] = LoopWhile(NewFrame("loop", prompt), abortSignal[v])]
  /\ UNCHANGED <<settings, abortSignal, abortedAt>>

\* loop(): onIterationStart has resolved
LoopOnIterationStartResolved(v) ==
  /\ inv[v].mode = "loop" /\ inv[v].pc = "onIterationStart"
  /\ inv' = [inv EXCEPT ![v] = CallGenerateText(@, LoopMessages(@))]
  /\ UNCHANGED <<settings, abortSignal, abortedAt>>

\* mutant of LoopGenerateTextResolved: allResults and the conversation are
\* kept on the agent, so the record also lands in the other loop() invocations
LoopGenerateTextResolved_OnInstance(v, n) ==
  /\ inv[v].mode = "loop" /\ inv[v].pc = "generateText"
  /\ LET result == GenerateTextResult(inv[v].iteration, n) IN
     inv' = [w \in Invocations |->
               IF w = v THEN LoopRecord(inv[v], result)
               ELSE IF inv[w].mode = "loop" /\ Running(w)
               THEN [inv[w] EXCEPT !.allResults = Append(@, result),
                                   !.currentMessages = @ \o result.response.messages]
               ELSE inv[w]]
  /\ UNCHANGED <<settings, abortSignal, abortedAt>>

\* loop(): generateText has resolved with a result of n response messages
LoopGenerateTextResolved(v, n) ==
  /\ inv[v].mode = "loop" /\ inv[v].pc = "generateText"
  /\ inv' = [inv EXCEPT ![v] = LoopRecord(@, GenerateTextResult(@.iteration, n))]
  /\ UNCHANGED <<settings, abortSignal, abortedAt>>

\* loop(): onIterationEnd has resolved
LoopOnIterationEndResolved(v) ==
  /\ inv[v].mode = "loop" /\ inv[v].pc = "onIterationEnd"
  /\ inv' = [inv EXCEPT ![v] = LoopVerify(@, abortSignal[v])]
  /\ UNCHANGED <<settings, abortSignal, abortedAt>>

\* loop(): verifyCompletion has resolved
LoopVerifyCompletionResolved(v, verification) ==
  /\ inv[v].mode = "loop" /\ inv[v].pc = "verifyCompletion"
  /\ inv' = [inv EXCEPT ![v] = LoopVerified(Resolved(@, verification), verification, abortSignal[v])]
  /\ UNCHANGED <<settings, abortSignal, abortedAt>>

---------------------------------------------------------------------------
(* stream(): the streaming variant *)

\* the messages of stream()'s final iteration
StreamFinalMessages(f) ==
  LET finalMessages == f.systemMessages \o <<f.initialUserMessage>> \o f.currentMessages IN
  IF f.iteration > 1
  THEN Append(finalMessages, ContinuationMessage)
  ELSE finalMessages

\* mutant of StreamFinal: the iteration counter is not incremented
StreamFinal_NoIncrement(f) ==
  ReturnStreamText(f, StreamFinalMessages(f))

\* after stream()'s while loop: iteration++ and the streaming call is returned
StreamFinal(f) ==
  LET g == [f EXCEPT !.iteration = @ + 1] IN
  ReturnStreamText(g, StreamFinalMessages(g))

\* mutant of StreamWhile: the budget test of loop() (no "- 1")
StreamWhile_FullBudget(f, aborted) ==
  IF f.iteration < f.maxIterations
  THEN IF aborted
       THEN StreamFinal(f)
       ELSE CallOnIterationStart([f EXCEPT !.iteration = @ + 1])
  ELSE StreamFinal(f)

\* mutant of StreamWhile: on abort the streaming call is returned as after a
\* verified completion (counter not incremented, no continuation prompt)
StreamWhile_AbortAsVerified(f, aborted) ==
  IF f.iteration < f.maxIterations - 1
  THEN IF aborted
       THEN ReturnStreamText(f, f.systemMessages \o <<f.initialUserMessage>> \o f.currentMessages)
       ELSE CallOnIterationStart([f EXCEPT !.iteration = @ + 1])
  ELSE StreamFinal(f)

\* the head of stream()'s while loop
StreamWhile(f, aborted) ==
  IF f.iteration < f.maxIterations - 1
  THEN IF aborted
       THEN StreamFinal(f)
       ELSE CallOnIterationStart([f EXCEPT !.iteration = @ + 1])
  ELSE StreamFinal(f)

\* the messages of a blocking iteration of stream()
StreamMessages(f) ==
  LET messages == f.systemMessages \o <<f.initialUserMessage>> \o f.currentMessages IN
  IF f.iteration > 1
  THEN Append(messages, ContinuationMessage)
  ELSE messages

\* after generateText in stream()
StreamRecord(f, result) ==
  CallOnIterationEnd(
    [f EXCEPT !.result = result,
              !.allResults = Append(@, result),
              !.currentMessages = @ \o result.response.messages])

\* after onIterationEnd in stream()
StreamVerify(f, aborted) ==
  IF settings.verifyCompletion
  THEN CallVerifyCompletion(f)
  ELSE StreamWhile(f, aborted)

\* mutant of StreamVerified: when complete, the final iteration is streamed
\* as after the loop (counter incremented, continuation prompt added)
StreamVerified_FinalIteration(f, verification, aborted) ==
  IF verification.complete
  THEN StreamFinal(f)
  ELSE IF Truthy(verification.reason)
  THEN StreamWhile([f EXCEPT !.currentMessages =
                       Append(@, FeedbackMessage(verification.reason))], aborted)
  ELSE StreamWhile(f, aborted)

\* after verifyCompletion in stream(): when complete, the streaming call is
\* returned at once, with the conversation so far; else feedback and loop
StreamVerified(f, verification, aborted) ==
  IF verification.complete
  THEN ReturnStreamText(f, f.systemMessages \o <<f.initialUserMessage>> \o f.currentMessages)
  ELSE IF Truthy(verification.reason)
  THEN StreamWhile([f EXCEPT !.currentMessages =
                       Append(@, FeedbackMessage(verification.reason))], aborted)
  ELSE StreamWhile(f, aborted)

\* agent.stream({ prompt, abortSignal }) is called
stream(v, prompt) ==
  /\ inv[v].pc = "idle"
  /\ inv' = [inv EXCEPT ![v] = StreamWhile(NewFrame("stream", prompt), abortSignal[v])]
  /\ UNCHANGED <<settings, abortSignal, abortedAt>>

\* stream(): onIterationStart has resolved
StreamOnIterationStartResolved(v) ==
  /\ inv[v].mode = "stream" /\ inv[v].pc = "onIterationStart"
  /\ inv' = [inv EXCEPT ![v] = CallGenerateText(@, StreamMessages(@))]
  /\ UNCHANGED <<settings, abortSignal, abortedAt>>

\* stream(): generateText has resolved with a result of n response messages
StreamGenerateTextResolved(v, n) ==
  /\ inv[v].mode = "stream" /\ inv[v].pc = "generateText"
  /\ inv' = [inv EXCEPT ![v] = StreamRecord(@, GenerateTextResult(@.iteration, n))]
  /\ UNCHANGED <<settings, abortSignal, abortedAt>>

\* stream(): onIterationEnd has resolved
StreamOnIterationEndResolved(v) ==
  /\ inv[v].mode = "stream" /\ inv[v].pc = "onIterationEnd"
  /\ inv' = [inv EXCEPT ![v] = StreamVerify(@, abortSignal[v])]
  /\ UNCHANGED <<settings, abortSignal, abortedAt>>

\* stream(): verifyCompletion has resolved
StreamVerifyCompletionResolved(v, verification) ==
  /\ inv[v].mode = "stream" /\ inv[v].pc = "verifyCompletion"
  /\ inv' = [inv EXCEPT ![v] = StreamVerified(Resolved(@, verification), verification, abortSignal[v])]
  /\ UNCHANGED <<settings, abortSignal, abortedAt>>

---------------------------------------------------------------------------
(* The collaborators' failures and the caller's cancellation *)

\* onIterationStart rejects (loop() and stream() alike: no try/catch)
OnIterationStartRejected(v) ==
  /\ inv[v].pc = "onIterationStart" /\ settings.onIterationStart
  /\ inv' = [inv EXCEPT ![v] = Throw(@, "onIterationStart")]
  /\ UNCHANGED <<settings, abortSignal, abortedAt>>

\* generateText rejects (a model or tool error, or the engine honouring the abort)
GenerateTextRejected(v) ==
  /\ inv[v].pc = "generateText"
  /\ inv' = [inv EXCEPT ![v] = Throw(@, "generateText")]
  /\ UNCHANGED <<settings, abortSignal, abortedAt>>

\* onIterationEnd rejects
OnIterationEndRejected(v) ==
  /\ inv[v].pc = "onIterationEnd" /\ settings.onIterationEnd
  /\ inv' = [inv EXCEPT ![v] = Throw(@, "onIterationEnd")]
  /\ UNCHANGED <<settings, abortSignal, abortedAt>>

\* verifyCompletion rejects
VerifyCompletionRejected(v) ==
  /\ inv[v].pc = "verifyCompletion"
  /\ inv' = [inv EXCEPT ![v] = Throw(@, "verifyCompletion")]
  /\ UNCHANGED <<settings, abortSignal, abortedAt>>

\* the caller aborts the signal of invocation v, before the call or while the
\* invocation is suspended at an await
Abort(v) ==
  /\ ~abortSignal[v]
  /\ inv[v].pc = "idle" \/ Running(v)
  /\ abortSignal' = [abortSignal EXCEPT ![v] = TRUE]
  /\ abortedAt' = [abortedAt EXCEPT ![v] = [pc |-> inv[v].pc, iteration |-> inv[v].iteration]]
  /\ UNCHANGED <<settings, inv>>

---------------------------------------------------------------------------
(* The specification: one invocation of the agent *)

NeverAborted == [pc |-> "never", iteration |-> 0]

Init ==
  /\ settings \in SettingsSet
  /\ abortSignal = [v \in Invocations |-> FALSE]
  /\ abortedAt = [v \in Invocations |-> NeverAborted]
  /\ inv = [v \in Invocations |-> BlankFrame(IF v = "A" THEN "idle" ELSE "off")]

Next ==
  \E v \in Invocations :
    \/ \E prompt \in Prompts : loop(v, prompt)
    \/ LoopOnIterationStartResolved(v)
    \/ \E n \in ResponseCounts : LoopGenerateTextResolved(v, n)
    \/ LoopOnIterationEndResolved(v)
    \/ \E verification \in Verifications : LoopVerifyCompletionResolved(v, verification)
    \/ \E prompt \in Prompts : stream(v, prompt)
    \/ StreamOnIterationStartResolved(v)
    \/ \E n \in ResponseCounts : StreamGenerateTextResolved(v, n)
    \/ StreamOnIterationEndResolved(v)
    \/ \E verification \in Verifications : StreamVerifyCompletionResolved(v, verification)
    \/ OnIterationStartRejected(v)
    \/ GenerateTextRejected(v)
    \/ OnIterationEndRejected(v)
    \/ VerifyCompletionRejected(v)
    \/ Abort(v)

Spec == Init /\ [][Next]_vars

\* two invocations on the same agent, interleaved at their awaits: an agent
\* with both callbacks, a verifier, an array of instructions and a budget of
\* two iterations
ConcurrentSettings ==
  { s \in SettingsSet :
      /\ s.stopWhen = [type |-> "iteration-count", count |-> 2]
      /\ s.onIterationStart /\ s.onIterationEnd /\ s.verifyCompletion
      /\ s.instructions.kind = "array" }

InitConcurrent ==
  /\ settings \in ConcurrentSettings
  /\ abortSignal = [v \in Invocations |-> FALSE]
  /\ abortedAt = [v \in Invocations |-> NeverAborted]
  /\ inv = [v \in Invocations |-> BlankFrame("idle")]

SpecConcurrent == InitConcurrent /\ [][Next]_vars

\* an await of invocation v settles: the collaborator it is suspended at
\* returns or fails
Settle(v) ==
  \/ LoopOnIterationStartResolved(v)
  \/ \E n \in ResponseCounts : LoopGenerateTextResolved(v, n)
  \/ LoopOnIterationEndResolved(v)
  \/ \E verification \in Verifications : LoopVerifyCompletionResolved(v, verification)
  \/ StreamOnIterationStartResolved(v)
  \/ \E n \in ResponseCounts : StreamGenerateTextResolved(v, n)
  \/ StreamOnIterationEndResolved(v)
  \/ \E verification \in Verifications : StreamVerifyCompletionResolved(v, verification)
  \/ OnIterationStartRejected(v)
  \/ GenerateTextRejected(v)
  \/ OnIterationEndRejected(v)
  \/ VerifyCompletionRejected(v)

\* the same invocations, with every collaborator call eventually returning or
\* failing (an awaited promise that settles resumes the async method)
FairSpec == Spec /\ \A v \in Invocations : WF_vars(Settle(v))

---------------------------------------------------------------------------
(* Observations on an invocation, for the properties *)

\* the positions of the calls of one collaborator in a call history
CallsOf(calls, name) == {p \in 1..Len(calls) : calls[p].call = name}

\* the number of blocking engine calls invocation v has made
EngineCalls(v) == Cardinality(CallsOf(inv[v].calls, "generateText"))

\* the number of streaming engine calls invocation v has made
StreamCalls(v) == Cardinality(CallsOf(inv[v].calls, "streamText"))

Returned(v) == inv[v].pc = "returned"
Threw(v) == inv[v].pc = "threw"
Terminated(v) == Returned(v) \/ Threw(v)

\* a collaborator (engine, callback, verifier) failed in invocation v
CollaboratorFailed(v) == Threw(v) /\ inv[v].error # "TypeError"

\* the verifier's last answer in invocation v was complete = true
LastVerificationComplete(v) ==
  LET vs == inv[v].verifications IN Len(vs) > 0 /\ vs[Len(vs)].complete

\* the signal of invocation v fired while v was suspended in its iteration k
AbortedDuring(v, k) ==
  /\ abortSignal[v]
  /\ abortedAt[v].pc \notin {"never", "idle"}
  /\ abortedAt[v].iteration = k

\* a is a prefix of b
IsPrefix(a, b) == Len(a) <= Len(b) /\ SubSeq(b, 1, Len(a)) = a

\* the feedback the verifier's answer to iteration i put into the conversation
FeedbackOf(v, i) ==
  LET vs == inv[v].verifications IN
  IF i <= Len(vs) /\ ~vs[i].complete /\ Truthy(vs[i].reason)
  THEN <<Message("user", "Feedback: " \o vs[i].reason)>>
  ELSE <<>>

\* the conversation after n iterations of invocation v: per iteration, the
\* response messages of its record, then its feedback message if any
RECURSIVE ConversationOf(_, _)
ConversationOf(v, n) ==
  IF n = 0
  THEN <<>>
  ELSE ConversationOf(v, n - 1) \o inv[v].allResults[n].response.messages \o FeedbackOf(v, n)

\* the collaborator calls of iteration i, in the order of the contract
IterationCalls(i) ==
  (IF settings.onIterationStart THEN <<Call("onIterationStart", i)>> ELSE <<>>)
    \o <<Call("generateText", i)>>
    \o (IF settings.onIterationEnd THEN <<Call("onIterationEnd", i)>> ELSE <<>>)
    \o (IF settings.verifyCompletion THEN <<Call("verifyCompletion", i)>> ELSE <<>>)

\* the collaborator calls of iterations 1..n
RECURSIVE CanonicalCalls(_)
CanonicalCalls(n) ==
  IF n <= 0 THEN <<>> ELSE CanonicalCalls(n - 1) \o IterationCalls(n)

IsBlockingCall(c) == c.call # "streamText"

\* the call history of invocation v without its streaming call
BlockingCalls(v) == SelectSeq(inv[v].calls, IsBlockingCall)

---------------------------------------------------------------------------
(* The claims *)

\* C1: for every budget N >= 1, a loop() invocation without verification
\* predicate, without cancellation and without failing collaborator makes
\* exactly N engine calls (never more than N on the way) and returns
\* completionReason = "max-iterations" with iterations = N and N records in
\* allResults; and without a predicate loop() never returns "verified".
C1_MaxIterations ==
  \A v \in Invocations :
    (inv[v].mode = "loop" /\ ~settings.verifyCompletion) =>
      /\ Returned(v) => inv[v].value.completionReason # "verified"
      /\ (maxIterations >= 1 /\ ~abortSignal[v]) => EngineCalls(v) <= maxIterations
      /\ (maxIterations >= 1 /\ ~abortSignal[v] /\ Terminated(v) /\ ~CollaboratorFailed(v)) =>
           /\ Returned(v)
           /\ EngineCalls(v) = maxIterations
           /\ inv[v].value.completionReason = "max-iterations"
           /\ inv[v].value.iterations = maxIterations
           /\ Len(inv[v].value.allResults) = maxIterations

\* C1 witness: loop() without predicate returned after spending a budget of
\* several iterations, the signal never fired
C1_Witness ==
  \E v \in Invocations :
    /\ inv[v].mode = "loop" /\ ~settings.verifyCompletion /\ ~abortSignal[v]
    /\ Returned(v) /\ maxIterations >= 2
    /\ EngineCalls(v) = maxIterations
    /\ inv[v].value.completionReason = "max-iterations"

\* C2: in loop() with budget N, when the predicate first answers complete =
\* true, on iteration k (1 <= k <= N), the loop stops at once: k engine calls
\* were made, and the result has completionReason = "verified", iterations = k
\* and the reason the predicate gave on iteration k.
C2_Verified ==
  \A v \in Invocations :
    (inv[v].mode = "loop" /\ LastVerificationComplete(v)) =>
      LET k == Len(inv[v].verifications) IN
      /\ 1 <= k /\ k <= maxIterations
      /\ \A j \in 1..(k - 1) : ~inv[v].verifications[j].complete
      /\ Returned(v)
      /\ EngineCalls(v) = k
      /\ inv[v].value.completionReason = "verified"
      /\ inv[v].value.iterations = k
      /\ inv[v].value.reason = inv[v].verifications[k].reason

\* C2 witness: the predicate answered complete with a reason on iteration 2
\* of 3, after an incomplete iteration 1
C2_Witness ==
  \E v \in Invocations :
    /\ inv[v].mode = "loop" /\ LastVerificationComplete(v)
    /\ Len(inv[v].verifications) = 2 /\ maxIterations = 3
    /\ inv[v].verifications[2].reason = "needs tests"
    /\ Returned(v) /\ inv[v].value.reason = "needs tests"

\* C3: when the signal is already aborted as loop() is called, the invocation
\* makes no engine call and yields completionReason = "aborted".
C3_AbortedBeforeStart ==
  \A v \in Invocations :
    (inv[v].mode = "loop" /\ abortedAt[v].pc = "idle" /\ maxIterations >= 1) =>
      /\ EngineCalls(v) = 0
      /\ Returned(v)
      /\ inv[v].value.completionReason = "aborted"

\* C4: in loop(), when the signal fires while the invocation is suspended in
\* iteration k (1 <= k < N), after the abort check of iteration k, and
\* iteration k ends without verified completion and without failure, no
\* further engine call is made and the invocation returns a result built from
\* the k completed iterations: completionReason = "aborted", iterations = k,
\* k records in allResults, text and result taken from the k-th record.
C4_AbortedAfterK ==
  \A v \in Invocations :
    \A k \in 1..(maxIterations - 1) :
      (inv[v].mode = "loop" /\ AbortedDuring(v, k)) =>
        /\ EngineCalls(v) <= k
        /\ inv[v].iteration = k
        /\ (Terminated(v) /\ ~CollaboratorFailed(v) /\ ~LastVerificationComplete(v)) =>
             /\ Returned(v)
             /\ EngineCalls(v) = k
             /\ inv[v].value.completionReason = "aborted"
             /\ inv[v].value.iterations = k
             /\ Len(inv[v].value.allResults) = k
             /\ inv[v].value.result = inv[v].value.allResults[k]
             /\ inv[v].value.text = inv[v].value.allResults[k].text
             /\ inv[v].value.text = GenerateTextResult(k, 1).text

\* C4 witness: the signal fired at the last await of iteration 2 of 3 (the
\* verifier, which then answered incomplete) and loop() returned "aborted"
C4_Witness ==
  \E v \in Invocations :
    /\ inv[v].mode = "loop" /\ maxIterations = 3
    /\ AbortedDuring(v, 2) /\ abortedAt[v].pc = "verifyCompletion"
    /\ Returned(v) /\ ~LastVerificationComplete(v)
    /\ inv[v].value.completionReason = "aborted"
    /\ inv[v].value.iterations = 2

\* when stream() issued its streaming call: right after the verifier answered
\* complete on an early iteration
StreamedAfterVerified(v) ==
  LET f == inv[v] IN
  /\ LastVerificationComplete(v)
  /\ f.iteration = Len(f.verifications) /\ f.iteration <= maxIterations - 1
  /\ f.calls = CanonicalCalls(f.iteration) \o <<Call("streamText", f.iteration)>>

\* when stream() issued its streaming call: once iteration N was reached
StreamedAtBudget(v) ==
  LET f == inv[v] IN
  /\ ~LastVerificationComplete(v)
  /\ f.iteration = maxIterations /\ EngineCalls(v) = maxIterations - 1
  /\ f.calls = CanonicalCalls(maxIterations - 1) \o <<Call("streamText", maxIterations)>>

\* when stream() issued its streaming call: at the head of an early iteration
\* that found the signal aborted
StreamedAfterAbort(v) ==
  LET f == inv[v] IN
  /\ ~LastVerificationComplete(v)
  /\ abortSignal[v]
  /\ f.iteration <= maxIterations - 1 /\ EngineCalls(v) = f.iteration - 1
  /\ f.calls = CanonicalCalls(f.iteration - 1) \o <<Call("streamText", f.iteration)>>

\* what C5 says in every case: at most N-1 blocking calls, one streaming call
\* at the return, whose output is in neither allResults nor the conversation
StreamBlockingBound(v) ==
  /\ EngineCalls(v) <= maxIterations - 1
  /\ StreamCalls(v) = (IF Returned(v) THEN 1 ELSE 0)
  /\ Returned(v) =>
       /\ Len(inv[v].allResults) = EngineCalls(v)
       /\ inv[v].currentMessages = ConversationOf(v, EngineCalls(v))
       /\ inv[v].value.streamText.messages = inv[v].messages

\* C5 (as stated): in stream() with budget N >= 1, at most N-1 blocking engine
\* calls are made before the streaming call is issued; the streaming call is
\* issued either right after an early iteration verified complete or once
\* iteration N is reached; its output is never appended to allResults or to
\* the conversation.
C5_StreamAsStated ==
  \A v \in Invocations :
    (inv[v].mode = "stream" /\ maxIterations >= 1) =>
      /\ StreamBlockingBound(v)
      /\ Returned(v) => (StreamedAfterVerified(v) \/ StreamedAtBudget(v))

\* C5 (amended): as stated, with the third case in which the streaming call
\* is issued: right after the head of an early iteration found the signal
\* aborted.
C5_StreamAmended ==
  \A v \in Invocations :
    (inv[v].mode = "stream" /\ maxIterations >= 1) =>
      /\ StreamBlockingBound(v)
      /\ Returned(v) =>
           (StreamedAfterVerified(v) \/ StreamedAtBudget(v) \/ StreamedAfterAbort(v))

\* C5 witness: stream() with a budget of 3 made its 2 blocking calls, none
\* verified complete, and returned the streaming call of iteration 3
C5_Witness ==
  \E v \in Invocations :
    /\ inv[v].mode = "stream" /\ maxIterations = 3 /\ settings.verifyCompletion
    /\ Returned(v) /\ StreamedAtBudget(v)
    /\ EngineCalls(v) = 2 /\ Len(inv[v].allResults) = 2

\* C6: within one invocation the collaborator calls of each iteration occur
\* once and in the order onIterationStart(i), engine call i, onIterationEnd(i),
\* verification(i), and all calls of iteration i come before any call of
\* iteration i+1; iterations are numbered 1, 2, 3, ... without gaps.  (Of the
\* optional collaborators, those that are configured.)
C6_CallOrder ==
  \A v \in Invocations :
    LET f == inv[v] IN
    /\ IsPrefix(BlockingCalls(v), CanonicalCalls(f.iteration))
    /\ IsPrefix(CanonicalCalls(f.iteration - 1), BlockingCalls(v))
    /\ f.pc = "onIterationStart" =>
         BlockingCalls(v) = CanonicalCalls(f.iteration - 1)
           \o (IF settings.onIterationStart
               THEN <<Call("onIterationStart", f.iteration)>> ELSE <<>>)
    /\ f.pc = "verifyCompletion" => BlockingCalls(v) = CanonicalCalls(f.iteration)
    /\ \A p \in 1..Len(f.calls) : f.calls[p].call = "streamText" => p = Len(f.calls)

\* C6 witness: loop() with both callbacks and the verifier is in the
\* verification of iteration 2: eight calls so far
C6_Witness ==
  \E v \in Invocations :
    /\ inv[v].mode = "loop" /\ inv[v].pc = "verifyCompletion" /\ inv[v].iteration = 2
    /\ settings.onIterationStart /\ settings.onIterationEnd
    /\ Len(inv[v].calls) = 8

\* what C7 says of one state: outside an engine call, allResults holds one
\* record per engine call made, and its j-th record is the result of iteration j
RecordsMatchCalls(v) ==
  LET f == inv[v] IN
  /\ (f.pc # "generateText" /\ ~(Threw(v) /\ f.error = "generateText")) =>
       Len(f.allResults) = EngineCalls(v)
  /\ f.pc = "generateText" => Len(f.allResults) = EngineCalls(v) - 1
  /\ \A j \in 1..Len(f.allResults) :
       f.allResults[j] = GenerateTextResult(j, Len(f.allResults[j].response.messages))

\* what C7 says of one step: allResults only grows, by one record at a time,
\* and only when an engine call returns
RecordsAppendOnly(v) ==
  /\ IsPrefix(inv[v].allResults, inv'[v].allResults)
  /\ Len(inv'[v].allResults) <= Len(inv[v].allResults) + 1
  /\ Len(inv'[v].allResults) > Len(inv[v].allResults) => inv[v].pc = "generateText"

\* C7: in blocking mode, wherever the controller is not inside an engine call,
\* allResults.length equals the number of engine calls made so far; allResults
\* is append-only with one record per completed iteration, record j-1 (from 0)
\* being the result of iteration j.
C7_AllResults ==
  /\ [](\A v \in Invocations : inv[v].mode = "loop" => RecordsMatchCalls(v))
  /\ [][\A v \in Invocations : inv[v].mode = "loop" => RecordsAppendOnly(v)]_vars

\* C7 witness: loop() returned with three records after three engine calls
C7_Witness ==
  \E v \in Invocations :
    /\ inv[v].mode = "loop" /\ Returned(v)
    /\ EngineCalls(v) = 3 /\ Len(inv[v].value.allResults) = 3
    /\ inv[v].value.allResults[2].text = "text 2"

\* the outbound message list the contract gives the engine call of invocation
\* v's current iteration
OutboundOf(v) ==
  LET base == buildSystemMessages \o <<Message("user", inv[v].prompt)>>
                \o inv[v].currentMessages
  IN IF inv[v].iteration > 1
     THEN base \o <<Message("user", ContinuationText)>>
     ELSE base

\* how often the continuation directive occurs in a message list
Directives(messages) ==
  Cardinality({p \in 1..Len(messages) : messages[p] = Message("user", ContinuationText)})

\* invocation v has an engine call of an iteration in flight or just issued:
\* a blocking call, or the streaming call of stream()'s final iteration
IterationCallIssued(v) ==
  \/ inv[v].pc = "generateText"
  \/ inv[v].mode = "stream" /\ Returned(v) /\ ~LastVerificationComplete(v)

\* C8: the outbound message list of every engine call made for iteration i
\* (blocking calls of loop() and stream(), and stream()'s final-iteration
\* streaming call) is the system messages, the original prompt message, the
\* accumulated conversation, and then the continuation directive if and only
\* if i > 1; the directive is never stored in the conversation (so it occurs
\* at most once in an outbound list).
C8_OutboundMessages ==
  \A v \in Invocations :
    /\ Directives(inv[v].currentMessages) = 0
    /\ IterationCallIssued(v) =>
         /\ inv[v].messages = OutboundOf(v)
         /\ Directives(inv[v].messages) = (IF inv[v].iteration > 1 THEN 1 ELSE 0)
         /\ inv[v].iteration > 1 =>
              inv[v].messages[Len(inv[v].messages)] = Message("user", ContinuationText)

\* C8 witness: the engine call of iteration 2 is in flight, with system
\* messages, feedback in the conversation and the directive at the end
C8_Witness ==
  \E v \in Invocations :
    /\ inv[v].pc = "generateText" /\ inv[v].iteration = 2
    /\ Len(buildSystemMessages) = 2
    /\ FeedbackOf(v, 1) # <<>>
    /\ Directives(inv[v].messages) = 1

\* C9: when the verifier answers complete = false with a non-empty reason on
\* iteration i, exactly one user message "Feedback: {reason}" is appended to
\* the conversation right after iteration i's response messages, before the
\* message list of the next engine call is built (which therefore holds it);
\* with an empty or absent reason, or with complete = true, no feedback
\* message is appended.
C9_Feedback ==
  \A v \in Invocations :
    LET f == inv[v]
        done == Len(f.allResults)
    IN /\ f.currentMessages = ConversationOf(v, done)
       /\ Len(f.verifications) <= done
       /\ (f.pc = "generateText" /\ f.iteration > 1) =>
            LET prev == ConversationOf(v, f.iteration - 1) IN
            /\ done = f.iteration - 1
            /\ SubSeq(f.messages, Len(f.messages) - Len(prev), Len(f.messages) - 1) = prev
            /\ FeedbackOf(v, f.iteration - 1) # <<>> =>
                 f.messages[Len(f.messages) - 1] = FeedbackOf(v, f.iteration - 1)[1]

\* C9 witness: the engine call of iteration 2 sees the feedback of iteration 1
\* right after the two response messages of iteration 1
C9_Witness ==
  \E v \in Invocations :
    /\ inv[v].pc = "generateText" /\ inv[v].iteration = 2
    /\ Len(inv[v].verifications) = 1
    /\ inv[v].verifications[1] = [complete |-> FALSE, reason |-> "needs tests"]
    /\ Len(inv[v].allResults[1].response.messages) = 2
    /\ inv[v].currentMessages[3] = Message("user", "Feedback: needs tests")
    /\ Len(inv[v].currentMessages) = 3

\* what C10 says of one step of invocation v: the conversation keeps what it
\* holds, and what is appended is produced by the current iteration: the
\* response messages of its record, or the one feedback message of its
\* verification (which comes after them)
ConversationAppendOnly(v) ==
  LET f == inv[v]
      g == inv'[v]
      added == SubSeq(g.currentMessages, Len(f.currentMessages) + 1, Len(g.currentMessages))
  IN /\ IsPrefix(f.currentMessages, g.currentMessages)
     /\ g.iteration >= f.iteration
     /\ \/ added = <<>>
        \/ /\ f.pc = "generateText"
           /\ Len(f.allResults) = f.iteration - 1 /\ Len(g.allResults) = f.iteration
           /\ added = g.allResults[f.iteration].response.messages
        \/ /\ f.pc = "verifyCompletion"
           /\ Len(f.allResults) = f.iteration /\ Len(g.verifications) = f.iteration
           /\ Len(f.verifications) = f.iteration - 1
           /\ Len(added) = 1 /\ added[1].role = "user"

\* C10: within one invocation the conversation is append-only: its message
\* count never decreases from one step to the next, appended messages keep
\* their position, and the messages produced by iteration i (response
\* messages, then its feedback message if any) precede those of iteration i+1.
C10_ConversationAppendOnly ==
  [][\A v \in Invocations : inv[v].mode # "none" => ConversationAppendOnly(v)]_vars

\* C10 witness: a conversation of two iterations with feedback in between
C10_Witness ==
  \E v \in Invocations :
    /\ inv[v].pc = "onIterationEnd" /\ inv[v].iteration = 2
    /\ FeedbackOf(v, 1) # <<>>
    /\ Len(inv[v].currentMessages) >= 3

\* a collaborator of invocation v has failed (whatever the invocation did then)
FailureSeen(v) == inv[v].error \notin {Undefined, "TypeError"}

\* C11: when the engine call, a lifecycle callback or the verification
\* predicate fails during iteration k, the failure propagates out of the
\* invocation: no LoopResult and no stream handle is produced, nothing is
\* retried (the failing call was made once), and no collaborator is invoked
\* after the failing call.
C11_FailurePropagates ==
  \A v \in Invocations :
    FailureSeen(v) =>
      LET f == inv[v] IN
      /\ Threw(v)
      /\ DOMAIN f.value = {"none"}
      /\ Len(f.calls) >= 1
      /\ f.calls[Len(f.calls)] = Call(f.error, f.iteration)
      /\ Cardinality({p \in 1..Len(f.calls) : f.calls[p] = Call(f.error, f.iteration)}) = 1
      /\ StreamCalls(v) = 0
      /\ ~ENABLED Settle(v)

\* C11 witness: the verifier of loop() failed on iteration 2, after the
\* callbacks and the engine had been called for it
C11_Witness ==
  \E v \in Invocations :
    /\ inv[v].mode = "loop" /\ Threw(v) /\ inv[v].error = "verifyCompletion"
    /\ inv[v].iteration = 2 /\ Len(inv[v].allResults) = 2
    /\ settings.onIterationStart /\ settings.onIterationEnd

\* C13: in stream(), when the verifier answers complete = true on an early
\* iteration k (1 <= k <= N-1), no further blocking engine call is made and
\* exactly one streaming call is issued, whose message list is the system
\* messages, the original prompt and the whole conversation so far (with
\* iteration k's response messages), without continuation directive; the
\* iteration counter is not incremented and no callback or verifier is
\* invoked for the streaming call.
C13_StreamEarlyVerified ==
  \A v \in Invocations :
    (inv[v].mode = "stream" /\ LastVerificationComplete(v)) =>
      LET f == inv[v]
          k == Len(f.verifications)
      IN /\ 1 <= k /\ k <= maxIterations - 1
         /\ Returned(v)
         /\ EngineCalls(v) = k /\ StreamCalls(v) = 1
         /\ f.iteration = k
         /\ Len(f.allResults) = k
         /\ f.value.streamText.messages =
              buildSystemMessages \o <<Message("user", f.prompt)>> \o ConversationOf(v, k)
         /\ Directives(f.value.streamText.messages) = 0
         /\ IsPrefix(f.allResults[k].response.messages,
                     SubSeq(f.currentMessages,
                            Len(f.currentMessages) - Len(f.allResults[k].response.messages) + 1,
                            Len(f.currentMessages)))
         /\ f.calls = CanonicalCalls(k) \o <<Call("streamText", k)>>

\* C13 witness: stream() with budget 3 verified complete on iteration 2 and
\* returned the streaming call, the feedback of iteration 1 in its messages
C13_Witness ==
  \E v \in Invocations :
    /\ inv[v].mode = "stream" /\ LastVerificationComplete(v) /\ Returned(v)
    /\ maxIterations = 3 /\ Len(inv[v].verifications) = 2
    /\ FeedbackOf(v, 1) # <<>>
    /\ StreamCalls(v) = 1

\* C14: in stream() with budget N >= 1 and no cancellation, when none of the
\* iterations 1..N-1 verifies complete (or there is no verifier), exactly N-1
\* blocking engine calls are made, then the counter is incremented to N and
\* one streaming call is issued for iteration N, built by the message rule of
\* blocking mode (continuation directive iff N > 1); that call is not passed
\* to the verifier and no onIterationStart/onIterationEnd is invoked for it.
C14_StreamFinalIteration ==
  \A v \in Invocations :
    (inv[v].mode = "stream" /\ maxIterations >= 1 /\ ~abortSignal[v]
       /\ Terminated(v) /\ ~CollaboratorFailed(v) /\ ~LastVerificationComplete(v)) =>
      LET f == inv[v] IN
      /\ Returned(v)
      /\ EngineCalls(v) = maxIterations - 1 /\ StreamCalls(v) = 1
      /\ Len(f.allResults) = maxIterations - 1
      /\ f.iteration = maxIterations
      /\ f.value.streamText.messages = OutboundOf(v)
      /\ Directives(f.value.streamText.messages) = (IF maxIterations > 1 THEN 1 ELSE 0)
      /\ f.calls = CanonicalCalls(maxIterations - 1) \o <<Call("streamText", maxIterations)>>
      /\ Len(f.verifications) = (IF settings.verifyCompletion THEN maxIterations - 1 ELSE 0)

\* C14 witness: stream() with budget 2, verifier and callbacks made its one
\* blocking call and returned the streaming call of iteration 2
C14_Witness ==
  \E v \in Invocations :
    /\ inv[v].mode = "stream" /\ maxIterations = 2 /\ ~abortSignal[v]
    /\ settings.verifyCompletion /\ settings.onIterationStart /\ settings.onIterationEnd
    /\ Returned(v) /\ ~LastVerificationComplete(v)
    /\ inv[v].iteration = 2 /\ Directives(inv[v].value.streamText.messages) = 1

\* C15: the controller reads the signal only at the top of an iteration: when
\* the signal fires after iteration k's abort check (for instance during its
\* engine call) and the engine nevertheless returns a result, iteration k is
\* completed in full (record appended, onIterationEnd(k) and the verifier
\* invoked, feedback appended) and the cancellation takes effect no earlier
\* than at the abort check of iteration k+1.
C15_AbortOnlyAtTop ==
  \A v \in Invocations :
    \A k \in 1..maxIterations :
      (inv[v].mode = "loop" /\ AbortedDuring(v, k)) =>
        LET f == inv[v] IN
        /\ f.iteration = k
        /\ Running(v) => f.completionReason = "max-iterations"
        /\ (Terminated(v) /\ ~CollaboratorFailed(v)) =>
             /\ Returned(v)
             /\ Len(f.allResults) = k
             /\ f.calls = CanonicalCalls(k)
             /\ Len(f.verifications) = (IF settings.verifyCompletion THEN k ELSE 0)
             /\ f.currentMessages = ConversationOf(v, k)
             /\ f.value.iterations = k
             /\ (f.value.completionReason = "aborted") =>
                  (k < maxIterations /\ ~LastVerificationComplete(v))

\* C15 witness: the signal fired during the engine call of iteration 1, the
\* engine returned, onIterationEnd and the verifier were called, the feedback
\* was appended, and loop() then returned "aborted"
C15_Witness ==
  \E v \in Invocations :
    /\ inv[v].mode = "loop" /\ AbortedDuring(v, 1) /\ abortedAt[v].pc = "generateText"
    /\ settings.onIterationEnd /\ settings.verifyCompletion
    /\ Returned(v) /\ inv[v].value.completionReason = "aborted"
    /\ FeedbackOf(v, 1) # <<>>
    /\ inv[v].currentMessages[Len(inv[v].currentMessages)] = FeedbackOf(v, 1)[1]

\* C16: whenever loop() leaves its while loop with allResults empty (the
\* signal fired before the first iteration, or the budget is below 1), there
\* is no last record to read and the invocation fails instead of returning a
\* LoopResult; conversely every LoopResult returned has a non-empty allResults
\* and its text and result are those of the last record.
C16_EmptyResultsFail ==
  \A v \in Invocations :
    inv[v].mode = "loop" =>
      LET f == inv[v] IN
      /\ (abortedAt[v].pc = "idle" \/ maxIterations < 1) =>
           /\ Threw(v) /\ f.error = "TypeError"
           /\ Len(f.allResults) = 0 /\ f.calls = <<>>
           /\ DOMAIN f.value = {"none"}
      /\ (Threw(v) /\ f.error = "TypeError") =>
           (Len(f.allResults) = 0 /\ (abortedAt[v].pc = "idle" \/ maxIterations < 1))
      /\ (Terminated(v) /\ Len(f.allResults) = 0 /\ ~CollaboratorFailed(v)) =>
           (Threw(v) /\ f.error = "TypeError")
      /\ Returned(v) =>
           /\ Len(f.value.allResults) >= 1
           /\ f.value.result = f.value.allResults[Len(f.value.allResults)]
           /\ f.value.text = f.value.result.text
           /\ f.value.text # Undefined

\* C16 witness: loop() with a budget of 3 was called with the signal already
\* aborted and failed on reading the last record
C16_Witness ==
  \E v \in Invocations :
    /\ inv[v].mode = "loop" /\ maxIterations = 3 /\ abortedAt[v].pc = "idle"
    /\ inv[v].completionReason = "aborted"
    /\ Threw(v) /\ inv[v].error = "TypeError"

\* the engine calls, blocking and streaming, invocation v has made
TotalEngineCalls(v) == EngineCalls(v) + StreamCalls(v)

\* the most engine calls an invocation with budget n may make
CallBudget(n) == IF n >= 1 THEN n ELSE 1

\* C17: provided every collaborator call eventually returns or fails, every
\* loop() and stream() invocation with a finite budget N eventually terminates
\* (returns a result or stream, or fails), after at most max(N, 1) engine
\* calls in total, whatever the verifier answers (also if it never reports
\* completion) and whenever the signal fires.
C17_Terminates ==
  /\ [](\A v \in Invocations : TotalEngineCalls(v) <= CallBudget(maxIterations))
  /\ \A v \in Invocations : (inv[v].mode # "none") ~> Terminated(v)

\* C17 witness: loop() with a verifier that never reported completion
\* returned after the three engine calls of its budget
C17_Witness ==
  \E v \in Invocations :
    /\ inv[v].mode = "loop" /\ maxIterations = 3 /\ settings.verifyCompletion
    /\ Len(inv[v].verifications) = 3 /\ ~LastVerificationComplete(v)
    /\ Returned(v) /\ TotalEngineCalls(v) = 3

\* C18: in stream() cancellation only stops the blocking iterations: every
\* stream() invocation in which no collaborator fails issues exactly one
\* streaming call, also when the signal fired before the call or between
\* early iterations (and with a budget of 1 or less, where no blocking call is
\* made); after an abort at the top of iteration k+1 the streaming call is
\* issued as iteration k+1, with the continuation directive iff k >= 1.
C18_StreamAlwaysStreams ==
  \A v \in Invocations :
    inv[v].mode = "stream" =>
      LET f == inv[v] IN
      /\ maxIterations <= 1 => EngineCalls(v) = 0
      /\ (Terminated(v) /\ ~CollaboratorFailed(v)) =>
           /\ Returned(v)
           /\ StreamCalls(v) = 1
           /\ f.calls[Len(f.calls)].call = "streamText"
      /\ (abortedAt[v].pc = "idle" /\ maxIterations >= 2) =>
           (Returned(v) /\ StreamedAfterAbort(v) /\ f.iteration = 1)
      /\ \A k \in 1..(maxIterations - 2) :
           (AbortedDuring(v, k) /\ Terminated(v) /\ ~CollaboratorFailed(v)
              /\ ~LastVerificationComplete(v)) =>
             (StreamedAfterAbort(v) /\ f.iteration = k + 1)
      /\ (Returned(v) /\ StreamedAfterAbort(v)) =>
           /\ f.value.streamText.messages = OutboundOf(v)
           /\ f.calls[Len(f.calls)] = Call("streamText", EngineCalls(v) + 1)
           /\ Directives(f.value.streamText.messages)
                = (IF EngineCalls(v) >= 1 THEN 1 ELSE 0)

\* C18 witness: stream() with budget 3 saw the signal, fired during
\* iteration 1, at the top of iteration 2 and returned the streaming call as
\* iteration 2, with the directive
C18_Witness ==
  \E v \in Invocations :
    /\ inv[v].mode = "stream" /\ maxIterations = 3 /\ AbortedDuring(v, 1)
    /\ Returned(v) /\ StreamedAfterAbort(v)
    /\ inv[v].iteration = 2 /\ EngineCalls(v) = 1
    /\ Directives(inv[v].value.streamText.messages) = 1

\* C19: a loop() result has completionReason = "aborted" only if fewer than N
\* engine calls were made and the last completed iteration did not verify
\* complete; a signal that fires during the N-th (final) iteration is never
\* observed, the result being "max-iterations" (or "verified" if that
\* iteration verified); and a verified completion on iteration k wins over a
\* signal fired during iteration k.
C19_AbortedOnlyEarly ==
  \A v \in Invocations :
    (inv[v].mode = "loop" /\ Returned(v)) =>
      LET f == inv[v] IN
      /\ f.value.completionReason = "aborted" =>
           /\ abortSignal[v]
           /\ EngineCalls(v) < maxIterations
           /\ ~LastVerificationComplete(v)
      /\ AbortedDuring(v, maxIterations) =>
           f.value.completionReason =
             (IF LastVerificationComplete(v) THEN "verified" ELSE "max-iterations")
      /\ (abortSignal[v] /\ LastVerificationComplete(v)) =>
           (f.value.completionReason = "verified"
              /\ f.value.iterations = Len(f.verifications))

\* C19 witness: the signal fired during the verification of the final
\* iteration 3, which answered incomplete, and loop() returned "max-iterations"
C19_Witness ==
  \E v \in Invocations :
    /\ inv[v].mode = "loop" /\ maxIterations = 3
    /\ AbortedDuring(v, 3) /\ abortedAt[v].pc = "verifyCompletion"
    /\ Returned(v) /\ ~LastVerificationComplete(v)
    /\ inv[v].value.completionReason = "max-iterations"

\* C20: the iteration counter and allResults stay in step: at every verifier
\* invocation iteration = allResults.length and result is the last element of
\* allResults (the verifier sees the current iteration's record), and every
\* LoopResult returned has iterations = allResults.length, result = the last
\* element of allResults and text = that record's text, for each of the three
\* completion reasons.
C20_CounterInStep ==
  \A v \in Invocations :
    LET f == inv[v] IN
    /\ f.pc = "verifyCompletion" =>
         /\ f.iteration = Len(f.allResults)
         /\ f.iteration >= 1
         /\ f.result = f.allResults[Len(f.allResults)]
         /\ f.result = GenerateTextResult(f.iteration, Len(f.result.response.messages))
    /\ (f.mode = "loop" /\ Returned(v)) =>
         /\ f.value.completionReason \in {"verified", "max-iterations", "aborted"}
         /\ f.value.iterations = Len(f.value.allResults)
         /\ f.value.result = f.value.allResults[Len(f.value.allResults)]
         /\ f.value.text = f.value.allResults[Len(f.value.allResults)].text

\* C20 witness: loop() returned "aborted" after two of three iterations, the
\* verifier having been asked twice
C20_Witness ==
  \E v \in Invocations :
    /\ inv[v].mode = "loop" /\ maxIterations = 3 /\ Returned(v)
    /\ inv[v].value.completionReason = "aborted"
    /\ inv[v].value.iterations = 2 /\ Len(inv[v].verifications) = 2

\* the completion reason the contract gives a returned loop() invocation,
\* from its own history alone
ReasonOf(v) ==
  IF LastVerificationComplete(v) THEN "verified"
  ELSE IF EngineCalls(v) = maxIterations THEN "max-iterations"
  ELSE "aborted"

\* the state of invocation v is what its own collaborator responses make it,
\* as when it runs alone: its calls in the order of the contract, one record
\* per engine call, the conversation of its own records and feedback, the
\* outbound messages of its own conversation, and the result of its own
\* records and verifier answers
OwnOutcome(v) ==
  LET f == inv[v] IN
  /\ IsPrefix(BlockingCalls(v), CanonicalCalls(f.iteration))
  /\ RecordsMatchCalls(v)
  /\ f.currentMessages = ConversationOf(v, Len(f.allResults))
  /\ IterationCallIssued(v) => f.messages = OutboundOf(v)
  /\ f.pc = "verifyCompletion" => f.iteration = Len(f.allResults)
  /\ (f.mode = "loop" /\ Returned(v)) =>
       f.value = [text |-> GenerateTextResult(EngineCalls(v), 1).text,
                  iterations |-> EngineCalls(v),
                  completionReason |-> ReasonOf(v),
                  reason |-> (IF LastVerificationComplete(v)
                              THEN f.verifications[Len(f.verifications)].reason
                              ELSE Undefined),
                  result |-> f.allResults[EngineCalls(v)],
                  allResults |-> f.allResults]
  /\ (f.mode = "stream" /\ Returned(v)) =>
       f.value.streamText.messages =
         buildSystemMessages \o <<Message("user", f.prompt)>>
           \o ConversationOf(v, EngineCalls(v))
           \o (IF ~LastVerificationComplete(v) /\ f.iteration > 1
               THEN <<Message("user", ContinuationText)>> ELSE <<>>)

\* a step changes the locals of at most one invocation, and only of one that
\* is being called or is suspended at an await; the settings never change
OwnStepsOnly ==
  /\ settings' = settings
  /\ \A v \in Invocations :
       inv'[v] # inv[v] =>
         /\ inv[v].pc = "idle" \/ Running(v)
         /\ \A w \in Invocations \ {v} : inv'[w] = inv[w]

\* C12: when two loop()/stream() invocations run concurrently on one agent,
\* interleaved at their suspension points, they share no mutable state: the
\* iteration counter, allResults and conversation of an invocation change only
\* by its own steps, and the outcome of each invocation is the one it has
\* when it runs alone with the same collaborator responses.
C12_NoSharedState ==
  /\ [](\A v \in Invocations : OwnOutcome(v))
  /\ [][OwnStepsOnly]_vars

\* C12 witness: two loop() invocations ran interleaved (each was suspended
\* in its iteration 1 when the other's signal fired or not) and returned
\* different results: one "aborted" after one iteration, the other
\* "verified" on its second
C12_Witness ==
  /\ inv["A"].mode = "loop" /\ inv["B"].mode = "loop"
  /\ Returned("A") /\ Returned("B")
  /\ AbortedDuring("A", 1) /\ ~abortSignal["B"]
  /\ inv["A"].value.completionReason = "aborted" /\ inv["A"].value.iterations = 1
  /\ inv["B"].value.completionReason = "verified" /\ inv["B"].value.iterations = 2
  /\ Len(inv["A"].allResults[1].response.messages) # Len(inv["B"].allResults[1].response.messages)

====
